---- MODULE Spec2Model ----
(***************************************************************************)
(* Order placement (addOrderItems, transactional and fallback path),       *)
(* operator product and order-status actions, payment intent creation,     *)
(* the Stripe webhook processor, the order totals of shipping.utils and    *)
(* the auth controller (login lockout, refresh-token rotation) of the      *)
(* Jaguza backend, modelled as state machines over the MongoDB documents   *)
(* they read and write.                                                    *)
(***************************************************************************)
EXTENDS Integers, Sequences, FiniteSets, TLC

\* ---------------------------------------------------------------- bounds
MaxRequests == 2
MaxStock == 1
MaxQty == 1
MaxItems == 2
MaxAdminOps == 1
MaxUsageLimit == 1

\* ------------------------------------------------------------- universes
Products == {"p1", "p2"}
Users == {"u1"}
Requests == 1 .. MaxRequests
Dbs == {1, 2}
NoStatus == 0

VARIABLES products, coupon, orders, req, adminOps, initStock, isoInput,
          ledger, payload, del, cpi, faults, effects, keyed, calc,
          tokens, rf, lg, acct, now, logouts

\* the state of the auth controller: refresh tokens, requests in flight,
\* the user's account, the clock
authVars == <<tokens, rf, lg, acct, now, logouts>>

\* the webhook processor's and the payment controller's own state
whVars == <<ledger, payload, del, cpi, faults, effects, keyed, calc,
            authVars>>

\* the state of the utility calls
utilVars == <<keyed, calc, authVars>>

\* the order placement's own state
placeVars == <<products, coupon, req, adminOps, initStock, isoInput>>

vars == <<products, coupon, orders, req, adminOps, initStock, isoInput,
          ledger, payload, del, cpi, faults, effects, keyed, calc,
          tokens, rf, lg, acct, now, logouts>>

\* everything but the auth controller's state
shopVars == <<orders, ledger, payload, del, cpi, faults, effects, placeVars,
              keyed, calc>>

\* ------------------------------------------------------ orders, payments
MaxDeliveries == 2
MaxFaults == 1
MaxIntents == 1

Deliveries == 1 .. MaxDeliveries
EventIds == {"evt_1", "evt_2"}
NoOrder == 0
NoAmount == 0
NoReason == "none"
NoIntent == <<>>
AmountDue == 1000
AmountOther == 2457
Currencies == {"usd", "eur"}

\* String.prototype.toLowerCase on the currency codes that occur
ToLower(c) ==
    CASE c = "USD" -> "usd"
      [] c = "EUR" -> "eur"
      [] OTHER -> c

\* (currency || 'usd').toLowerCase(); "" stands for no currency in the body
NormalizeCurrency(c) == ToLower(IF c = "" THEN "usd" ELSE c)

\* the PaymentIntent the processor returns: one per idempotency key
\* `pi:create:<orderId>:<amount>:<currency>`
IntentId(o, amount, currency) == <<"pi", o, amount, currency>>

\* Document.save(): $set of the paths whose value was changed after the read
SaveDoc(cur, read, new) ==
    [f \in DOMAIN cur |-> IF new[f] # read[f] THEN new[f] ELSE cur[f]]

\* an order as addOrderItems persists it
OrderDoc(db, user, items, totalCents) ==
    [db |-> db, user |-> user, items |-> items, totalCents |-> totalCents,
     status |-> "pending", isPaid |-> FALSE, payStatus |-> "pending",
     payAmount |-> NoAmount, payCurrency |-> "usd", intentId |-> NoIntent,
     failureReason |-> NoReason, refundAmount |-> NoAmount]

\* ---- markOrderPaid / markOrderFailed / markOrderRefunded on a read order:
\* save: the handler calls order.save(); doc: the document it then saves
AmountMismatchNever(rd, ev) == FALSE

AmountMismatch(rd, ev) ==
    /\ rd.payAmount > 0
    /\ ev.amount # NoAmount
    /\ ev.amount # rd.payAmount

CurrencyMismatch(rd, ev) ==
    /\ rd.payCurrency # "" /\ ev.currency # ""
    /\ ToLower(ev.currency) # ToLower(rd.payCurrency)

markOrderPaid(rd, ev) ==
    IF rd.status \in {"cancelled", "refunded"} THEN [save |-> FALSE, doc |-> rd]
    ELSE IF rd.isPaid \/ rd.payStatus = "paid" THEN [save |-> FALSE, doc |-> rd]
    ELSE IF AmountMismatch(rd, ev)
    THEN [save |-> TRUE,
          doc |-> [rd EXCEPT !.payStatus = "failed",
                             !.failureReason = "Payment amount mismatch"]]
    ELSE IF CurrencyMismatch(rd, ev)
    THEN [save |-> TRUE,
          doc |-> [rd EXCEPT !.payStatus = "failed",
                             !.failureReason = "Payment currency mismatch"]]
    ELSE [save |-> TRUE,
          doc |-> [rd EXCEPT !.payStatus = "paid", !.intentId = ev.intent,
                             !.payCurrency = ev.currency,
                             !.payAmount = ev.amount,
                             !.failureReason = NoReason, !.isPaid = TRUE,
                             !.status = IF @ = "pending" THEN "confirmed"
                                        ELSE @]]

markOrderFailedNoGuard(rd, ev) ==
    [save |-> TRUE,
     doc |-> [rd EXCEPT !.payStatus = "failed", !.intentId = ev.intent,
                        !.failureReason = "Payment failed",
                        !.isPaid = FALSE]]

markOrderFailed(rd, ev) ==
    IF \/ rd.isPaid \/ rd.payStatus = "paid" \/ rd.payStatus = "refunded"
       \/ rd.status = "refunded"
    THEN [save |-> FALSE, doc |-> rd]
    ELSE [save |-> TRUE,
          doc |-> [rd EXCEPT !.payStatus = "failed", !.intentId = ev.intent,
                             !.failureReason = "Payment failed",
                             !.isPaid = FALSE]]

markOrderRefunded(rd, ev) ==
    IF rd.payStatus = "refunded" \/ rd.status = "refunded"
    THEN [save |-> FALSE, doc |-> rd]
    ELSE [save |-> TRUE,
          doc |-> [rd EXCEPT !.payStatus = "refunded",
                             !.refundAmount = ev.amount,
                             !.status = "refunded", !.isPaid = FALSE]]

SucceededT == "payment_intent.succeeded"
FailedT == "payment_intent.payment_failed"
RefundedT == "charge.refunded"

\* the order a handler loads: Order.findById(metadata.orderId), or for a
\* refund Order.findOne({'payment.intentId': charge.payment_intent})
TargetOf(ev) ==
    IF ev.type \in {SucceededT, FailedT}
    THEN (IF ev.orderId \in DOMAIN orders THEN ev.orderId ELSE NoOrder)
    ELSE IF ev.type = RefundedT /\ ev.intent # NoIntent
    THEN (IF \E o \in DOMAIN orders : orders[o].intentId = ev.intent
          THEN CHOOSE o \in DOMAIN orders : orders[o].intentId = ev.intent
          ELSE NoOrder)
    ELSE NoOrder

\* the switch on event.type
Dispatch(rd, ev) ==
    CASE ev.type = SucceededT -> markOrderPaid(rd, ev)
      [] ev.type = FailedT -> markOrderFailed(rd, ev)
      [] ev.type = RefundedT -> markOrderRefunded(rd, ev)
      [] OTHER -> [save |-> FALSE, doc |-> rd]

\* does the handler touch the store at all (an id to look up)?
Queries(ev) ==
    \/ ev.type \in {SucceededT, FailedT} /\ ev.orderId # NoOrder
    \/ ev.type = RefundedT /\ ev.intent # NoIntent

\* ------------------------------------------------------ pure helpers
RECURSIVE QtyOf(_, _)
QtyOf(items, p) ==
    IF items = <<>> THEN 0
    ELSE (IF Head(items).productId = p THEN Head(items).qty ELSE 0)
         + QtyOf(Tail(items), p)

\* normalizeOrderItems: keep the entries with a product id and qty > 0
normalizeOrderItems(orderItems) ==
    SelectSeq(orderItems, LAMBDA it : it.productId \in Products /\ it.qty > 0)

RawItem == [productId : Products, qty : 0 .. MaxQty]
RawItemLists == UNION {[1 .. n -> RawItem] : n \in 0 .. MaxItems}

\* the filter of the conditional decrement (Product.updateOne)
StockGuardNoStock(prod, qty) ==
    prod.exists /\ prod.enabled /\ prod.isDeleted # TRUE

StockGuardOffByOne(prod, qty) ==
    /\ prod.exists
    /\ prod.enabled
    /\ prod.isDeleted # TRUE
    /\ prod.countInStock >= qty - 1

StockGuard(prod, qty) ==
    /\ prod.exists
    /\ prod.enabled
    /\ prod.isDeleted # TRUE
    /\ prod.countInStock >= qty

ZeroDec == [p \in Products |-> 0]

\* owed[p]: what the request has taken from p and not given back (inside a
\* transaction: its uncommitted decrements)
IdleReq ==
    [pc |-> "idle", db |-> 1, path |-> "fallback", items |-> <<>>,
     ndec |-> 0, comp |-> {}, status |-> NoStatus, owed |-> ZeroDec,
     snap |-> FALSE, stale |-> {}, snapProducts |-> <<>>,
     couponRead |-> <<>>, guardFailed |-> FALSE]

Active(rq) == rq.pc \in {"reserve", "snapshot", "coupon", "couponSave", "save"}

InTxn(rq) == rq.path = "txn" /\ Active(rq)

\* the items the fallback path has pushed to its `decremented` list
Decremented(rq) == SubSeq(rq.items, 1, rq.ndec)

\* a document carrying an uncommitted write of another request's transaction
LockedByOther(db, p, r) ==
    \E q \in Requests \ {r} :
        req[q].db = db /\ InTxn(req[q]) /\ req[q].owed[p] > 0

\* a committed write to the products in P: every open snapshot of the same
\* database that does not contain it will conflict on those documents
MarkStale(rq, db, P, r) ==
    [q \in Requests |->
        IF q # r /\ rq[q].db = db /\ InTxn(rq[q]) /\ rq[q].snap
        THEN [rq[q] EXCEPT !.stale = @ \cup P]
        ELSE rq[q]]

\* what a request reads from the committed documents `docs`: the documents
\* themselves, or inside a transaction its snapshot with its own uncommitted
\* decrements applied
ViewNoOwnWrites(rq, docs) ==
    IF rq.path = "txn" /\ rq.snap THEN rq.snapProducts ELSE docs

View(rq, docs) ==
    LET base == IF rq.path = "txn" /\ rq.snap THEN rq.snapProducts ELSE docs
    IN  IF rq.path = "txn"
        THEN [p \in Products |->
                [base[p] EXCEPT !.countInStock = @ - rq.owed[p]]]
        ELSE base

\* error -> HTTP status (res.status set in the handler, else the error
\* middleware's default)
StatusOf(err) ==
    CASE err = "insufficient" -> 409
      [] err = "unavailable" -> 400
      [] err = "noitems" -> 400
      [] OTHER -> 500

\* a request that has answered keeps its status and what it still holds
Finished(rq, status) ==
    [rq EXCEPT !.pc = "done", !.status = status, !.items = <<>>,
               !.comp = {}, !.stale = {}, !.snap = FALSE,
               !.snapProducts = <<>>, !.couponRead = <<>>]

\* decremented.map(...): the entries of `decremented` to give back
CompensationLastOnly(rq) == {rq.ndec}

CompensationSet(rq) == 1 .. rq.ndec

\* the catch blocks: abort the transaction, or start compensating
FailNoRollback(rq, err) ==
    [Finished(rq, StatusOf(err)) EXCEPT
        !.guardFailed = (err = "insufficient")]

Fail(rq, err) ==
    IF rq.path = "txn" \/ rq.ndec = 0
    THEN [Finished(rq, StatusOf(err)) EXCEPT
            !.owed = ZeroDec, !.guardFailed = (err = "insufficient")]
    ELSE [rq EXCEPT !.pc = "compensate", !.status = StatusOf(err),
                    !.comp = CompensationSet(rq),
                    !.guardFailed = (err = "insufficient")]

\* the unit price of the products, in cents (the totals of an order also
\* carry shipping and tax, which no action of this model reads)
UnitPriceCents == 1000

NewOrder(r, rq) ==
    OrderDoc(rq.db, "u1", rq.items,
             UnitPriceCents * (QtyOf(rq.items, "p1") + QtyOf(rq.items, "p2")))

\* ------------------------------------------------------------ addOrderItems
\* lines 36-51: normalise the items, reject an empty list, probe the topology
Begin(r, raw, path, db) ==
    /\ req[r].pc = "idle"
    /\ \A q \in Requests : q < r => req[q].pc # "idle"
    /\ LET normalized == normalizeOrderItems(raw) IN
        req' = [req EXCEPT ![r] =
            IF normalized = <<>>
            THEN [Finished(@, StatusOf("noitems")) EXCEPT
                        !.db = db, !.path = path]
            ELSE [@ EXCEPT !.pc = "reserve", !.items = normalized,
                           !.path = path, !.db = db]]
    /\ UNCHANGED <<products, coupon, orders, adminOps, initStock, isoInput, whVars>>

AfterReserve(rq) ==
    IF rq.ndec = Len(rq.items) THEN [rq EXCEPT !.pc = "snapshot"] ELSE rq

\* fallback path: one conditional decrement (lines 187-199)
FallbackReserve(r) ==
    LET rq == req[r]
        it == rq.items[rq.ndec + 1]
        p == it.productId
        prod == products[rq.db][p]
    IN  /\ rq.pc = "reserve" /\ rq.path = "fallback"
        /\ IF StockGuard(prod, it.qty)
           THEN /\ ~LockedByOther(rq.db, p, r)
                /\ products' = [products EXCEPT
                        ![rq.db][p].countInStock = @ - it.qty]
                /\ req' = [MarkStale(req, rq.db, {p}, r) EXCEPT ![r] =
                        AfterReserve([rq EXCEPT !.ndec = @ + 1,
                                                !.owed[p] = @ + it.qty])]
           ELSE /\ req' = [req EXCEPT ![r] = Fail(rq, "insufficient")]
                /\ UNCHANGED products
        /\ UNCHANGED <<coupon, orders, adminOps, initStock, isoInput, whVars>>

\* transactional path: one conditional decrement in the session (60-70)
TxnReserve(r) ==
    LET rq == req[r]
        it == rq.items[rq.ndec + 1]
        p == it.productId
        rs == IF rq.snap THEN rq
              ELSE [rq EXCEPT !.snap = TRUE,
                              !.snapProducts = products[rq.db]]
        seen == View(rs, products[rq.db])[p]
    IN  /\ rq.pc = "reserve" /\ rq.path = "txn"
        /\ req' = [req EXCEPT ![r] =
             IF ~StockGuard(seen, it.qty) THEN Fail(rs, "insufficient")
             ELSE IF p \in rq.stale \/ LockedByOther(rq.db, p, r)
                  THEN Fail(rs, "writeconflict")
             ELSE AfterReserve([rs EXCEPT !.ndec = @ + 1,
                                          !.owed[p] = @ + it.qty])]
        /\ UNCHANGED <<products, coupon, orders, adminOps, initStock,
                       isoInput, whVars>>

\* Product.find after the decrements (72-86, 201-215); cc: the request
\* carries a couponCode
Snapshot(r, cc) ==
    LET rq == req[r]
        seen == View(rq, products[rq.db])
        found == \A i \in 1 .. Len(rq.items) : seen[rq.items[i].productId].exists
    IN  /\ rq.pc = "snapshot"
        /\ req' = [req EXCEPT ![r] =
             IF ~found THEN Fail(rq, "unavailable")
             ELSE [rq EXCEPT !.pc = IF cc THEN "coupon" ELSE "save"]]
        /\ UNCHANGED <<products, coupon, orders, adminOps, initStock,
                       isoInput, whVars>>

UserUses(cp, u) == cp.usedBy[u]

\* Coupon.findValidByCode, coupon.canBeUsedBy
CouponUsable(cp, u) ==
    /\ cp.usedCount < cp.usageLimit
    /\ UserUses(cp, u) < cp.usageLimitPerUser

\* applyCouponToOrder, up to the read of the coupon document; throws: the
\* lookup raises (a couponCode that is not a string, a store error)
CouponFind(r, throws) ==
    LET rq == req[r]
        cp == coupon[rq.db]
    IN  /\ rq.pc = "coupon"
        /\ req' = [req EXCEPT ![r] =
             IF throws THEN Fail(rq, "other")
             ELSE IF CouponUsable(cp, "u1")
                  THEN [rq EXCEPT !.pc = "couponSave", !.couponRead = cp]
             ELSE [rq EXCEPT !.pc = "save"]]
        /\ UNCHANGED <<products, coupon, orders, adminOps, initStock,
                       isoInput, whVars>>

\* applyCouponToOrder: usedBy.push, usedCount += 1, coupon.save()
CouponSave(r) ==
    LET rq == req[r]
    IN  /\ rq.pc = "couponSave"
        /\ coupon' = [coupon EXCEPT
                ![rq.db].usedCount = rq.couponRead.usedCount + 1,
                ![rq.db].usedBy["u1"] = @ + 1]
        /\ req' = [req EXCEPT ![r] = [rq EXCEPT !.pc = "save",
                                                !.couponRead = <<>>]]
        /\ UNCHANGED <<products, orders, adminOps, initStock, isoInput, whVars>>

\* commitTransaction: the decrements of the session reach the documents
CommitDropsWrites(rq, docs) == docs

Commit(rq, docs) ==
    [p \in Products |->
        [docs[p] EXCEPT !.countInStock =
            IF rq.path = "txn" THEN @ - rq.owed[p] ELSE @]]

\* order.save(), and on the transactional path commitTransaction; fails: the
\* save is rejected (validation, store error)
SaveOrder(r, fails) ==
    LET rq == req[r]
    IN  /\ rq.pc = "save"
        /\ IF fails
           THEN /\ req' = [req EXCEPT ![r] = Fail(rq, "other")]
                /\ UNCHANGED <<products, orders>>
           ELSE /\ orders' = (r :> NewOrder(r, rq)) @@ orders
                /\ products' = [products EXCEPT ![rq.db] = Commit(rq, @)]
                /\ req' = [MarkStale(req, rq.db,
                             IF rq.path = "txn"
                             THEN {p \in Products : rq.owed[p] > 0}
                             ELSE {}, r)
                           EXCEPT ![r] = Finished(rq, 201)]
        /\ UNCHANGED <<coupon, adminOps, initStock, isoInput, whVars>>

\* one compensating increment of the Promise.all (296-304)
Compensate(r) ==
    LET rq == req[r]
    IN  /\ rq.pc = "compensate"
        /\ \E i \in rq.comp :
            LET d == Decremented(rq)[i]
                p == d.productId
                left == rq.comp \ {i}
                nrq == [rq EXCEPT !.comp = left, !.owed[p] = @ - d.qty]
            IN  /\ ~LockedByOther(rq.db, p, r)
                /\ products' = [products EXCEPT ![rq.db][p].countInStock =
                        IF products[rq.db][p].exists THEN @ + d.qty ELSE @]
                /\ req' = [MarkStale(req, rq.db, {p}, r) EXCEPT ![r] =
                        IF left = {} THEN Finished(nrq, rq.status) ELSE nrq]
        /\ UNCHANGED <<coupon, orders, adminOps, initStock, isoInput, whVars>>

\* ------------------------------------------------- operator product actions
\* admin.controller.js setProductVisibility
SetProductVisibility(p) ==
    /\ adminOps < MaxAdminOps
    /\ products[1][p].exists
    /\ ~LockedByOther(1, p, 0)
    /\ \E b \in BOOLEAN :
        /\ b # products[1][p].enabled
        /\ products' = [products EXCEPT ![1][p].enabled = b]
    /\ req' = MarkStale(req, 1, {p}, 0)
    /\ adminOps' = adminOps + 1
    /\ UNCHANGED <<coupon, orders, initStock, isoInput, whVars>>

\* admin.controller.js deleteProduct (findByIdAndDelete)
DeleteProduct(p) ==
    /\ adminOps < MaxAdminOps
    /\ products[1][p].exists
    /\ ~LockedByOther(1, p, 0)
    /\ products' = [products EXCEPT ![1][p].exists = FALSE]
    /\ req' = MarkStale(req, 1, {p}, 0)
    /\ adminOps' = adminOps + 1
    /\ UNCHANGED <<coupon, orders, initStock, isoInput, whVars>>

\* ---- the WebhookEvent ledger
NewRecord(ev) ==
    [attempts |-> 0, processedAt |-> FALSE, lastError |-> FALSE,
     type |-> ev.type]

\* findOneAndUpdate(..., {$setOnInsert, $set, $inc: {attempts: 1}},
\* {upsert: true, new: true})
UpsertNoIncrement(led, e, ev) ==
    LET old == IF e \in DOMAIN led THEN led[e] ELSE NewRecord(ev)
    IN  [old EXCEPT !.attempts = 1, !.type = ev.type]

Upsert(led, e, ev) ==
    LET old == IF e \in DOMAIN led THEN led[e] ELSE NewRecord(ev)
    IN  [old EXCEPT !.attempts = @ + 1, !.type = ev.type]

\* if (eventRecord?.processedAt)
IsDuplicateNever(rec) == FALSE

IsDuplicateByAttempts(rec) == rec.attempts > 1

IsDuplicate(rec) == rec.processedAt

\* where the delivery goes after the upsert
AfterUpsertStampFirst(rec) == IF IsDuplicate(rec) THEN "dup" ELSE "stamp"

AfterUpsert(rec) == IF IsDuplicate(rec) THEN "dup" ELSE "handler"

\* the catch block's updateOne: $set lastError
RecordErrorStamped(rec) ==
    [rec EXCEPT !.lastError = TRUE, !.processedAt = TRUE]

RecordError(rec) == [rec EXCEPT !.lastError = TRUE]

\* the final updateOne: $set processedAt, lastError: undefined (the key is
\* dropped or written as null, depending on the mongoose version)
RecordProcessed(rec, clears) ==
    [rec EXCEPT !.processedAt = TRUE,
                !.lastError = IF clears THEN FALSE ELSE @]

\* a Stripe-Signature header is modelled by the secret it was computed with
WebhookSecret == "whsec_endpoint"
NoSignature == ""
Signatures == {NoSignature, WebhookSecret, "whsec_other"}

\* stripe.webhooks.constructEvent(body, signature, secret) returns the event
constructEvent(sig) == sig = WebhookSecret

\* lines 105-117: the header is there and constructEvent does not throw
VerifiedAnySignature(sig) == sig # NoSignature

Verified(sig) == sig # NoSignature /\ constructEvent(sig)

\* genuine: the payload was signed with the endpoint's secret
IdleDel ==
    [pc |-> "idle", event |-> "evt_1", resp |-> NoStatus, genuine |-> FALSE,
     duplicate |-> FALSE, seenProcessed |-> FALSE, ranHandler |-> FALSE,
     handlerDone |-> FALSE, failed |-> FALSE, wrote |-> FALSE,
     stamped |-> FALSE, target |-> NoOrder, read |-> <<>>, new |-> <<>>]

Answered(dl, status) ==
    [dl EXCEPT !.pc = "done", !.resp = status, !.read = <<>>, !.new = <<>>]

\* a store operation fails: at most MaxFaults times
Fault(ok) ==
    IF ok THEN faults' = faults
    ELSE faults < MaxFaults /\ faults' = faults + 1

\* handleStripeWebhook up to the duplicate check (lines 99-149)
Receive(d, e, sig, ok) ==
    LET ev == payload[e]
        rec == Upsert(ledger, e, ev)
        dl == [del[d] EXCEPT !.event = e, !.genuine = (sig = WebhookSecret)]
    IN  /\ del[d].pc = "idle"
        /\ \A c \in Deliveries : c < d => del[c].pc # "idle"
        /\ ~Verified(sig) => ok
        /\ IF ~Verified(sig)
           THEN /\ del' = [del EXCEPT ![d] = Answered(dl, 400)]
                /\ UNCHANGED <<ledger, faults>>
           ELSE /\ Fault(ok)
                /\ IF ~ok
                   THEN /\ del' = [del EXCEPT ![d] = Answered(dl, 500)]
                        /\ UNCHANGED ledger
                   ELSE /\ ledger' = (e :> rec) @@ ledger
                        /\ del' = [del EXCEPT ![d] =
                             IF AfterUpsert(rec) = "dup"
                             THEN [Answered(dl, 200) EXCEPT
                                     !.duplicate = TRUE,
                                     !.seenProcessed = rec.processedAt]
                             ELSE [dl EXCEPT !.pc = AfterUpsert(rec),
                                     !.seenProcessed = rec.processedAt]]
        /\ UNCHANGED <<orders, payload, cpi, effects, placeVars, utilVars>>

\* the dispatched handler up to its decision (lines 151-164, 9-55)
HandlerRead(d, ok) ==
    LET dl == del[d]
        ev == payload[dl.event]
        o == TargetOf(ev)
        res == Dispatch(orders[o], ev)
    IN  /\ dl.pc = "handler"
        /\ Fault(ok)
        /\ ~ok => Queries(ev)
        /\ del' = [del EXCEPT ![d] =
             IF ~ok
             THEN [dl EXCEPT !.pc = "onError", !.ranHandler = TRUE,
                             !.failed = TRUE]
             ELSE IF o = NoOrder \/ ~res.save
             THEN [dl EXCEPT !.pc = "stamp", !.ranHandler = TRUE,
                             !.handlerDone = TRUE]
             ELSE [dl EXCEPT !.pc = "save", !.ranHandler = TRUE,
                             !.target = o, !.read = orders[o],
                             !.new = res.doc]]
        /\ UNCHANGED <<orders, ledger, payload, cpi, effects, placeVars,
                       utilVars>>

\* the handler's order.save()
HandlerSave(d, ok) ==
    LET dl == del[d]
        o == dl.target
        saved == SaveDoc(orders[o], dl.read, dl.new)
    IN  /\ dl.pc = "save"
        /\ Fault(ok)
        /\ IF ok
           THEN /\ orders' = [orders EXCEPT ![o] = saved]
                /\ effects' = [effects EXCEPT ![dl.event] =
                        IF saved # orders[o] THEN @ + 1 ELSE @]
                /\ del' = [del EXCEPT ![d] =
                        [dl EXCEPT !.pc = "stamp", !.handlerDone = TRUE,
                                   !.wrote = TRUE, !.read = <<>>,
                                   !.new = <<>>]]
           ELSE /\ del' = [del EXCEPT ![d] =
                        [dl EXCEPT !.pc = "onError", !.failed = TRUE,
                                   !.read = <<>>, !.new = <<>>]]
                /\ UNCHANGED <<orders, effects>>
        /\ UNCHANGED <<ledger, payload, cpi, placeVars, utilVars>>

\* the catch block (lines 165-174): a failure of its own updateOne is
\* swallowed by the inner try/catch and the answer is 500 either way
OnError(d, ok) ==
    LET dl == del[d]
    IN  /\ dl.pc = "onError"
        /\ ledger' = IF ok THEN [ledger EXCEPT ![dl.event] = RecordError(@)]
                     ELSE ledger
        /\ del' = [del EXCEPT ![d] = Answered(dl, 500)]
        /\ UNCHANGED <<orders, payload, cpi, faults, effects, placeVars,
                       utilVars>>

\* the stamp (lines 176-181)
Stamp(d, ok, clears) ==
    LET dl == del[d]
    IN  /\ dl.pc = "stamp"
        /\ Fault(ok)
        /\ IF ok
           THEN /\ ledger' = [ledger EXCEPT ![dl.event] =
                        RecordProcessed(@, clears)]
                /\ del' = [del EXCEPT ![d] =
                        [Answered(dl, 200) EXCEPT !.stamped = TRUE]]
           ELSE /\ ~clears
                /\ del' = [del EXCEPT ![d] = Answered(dl, 500)]
                /\ UNCHANGED ledger
        /\ UNCHANGED <<orders, payload, cpi, effects, placeVars, utilVars>>

\* ---- shipping.utils: amounts of money are integers in thousandths of a
\* dollar, so that a price or a discount can carry a fraction of a cent
MaxLines == 2
Cent == 10
Dollar == 1000

\* Number(x.toFixed(2)), for x counted in units of which `cent` make a cent;
\* tieUp: whether the binary value of a decimal tie lies above the tie
toFixed2(x, cent, tieUp) ==
    LET q == x \div cent
        r == x % cent
    IN  (IF 2 * r > cent \/ (2 * r = cent /\ tieUp) THEN q + 1 ELSE q) * Cent

getShippingRegion(countryCode) ==
    CASE countryCode \in {"UG", "KE"} -> countryCode
      [] countryCode = "DE" -> "EU"
      [] OTHER -> "DEFAULT"

\* SHIPPING_RATES[region][method].price, an unknown method priced as standard
ShippingRate(region, method) ==
    LET express == method = "express"
    IN  CASE region = "UG" -> IF express THEN 12 * Dollar ELSE 5 * Dollar
          [] region = "KE" -> IF express THEN 30 * Dollar ELSE 15 * Dollar
          [] region = "EU" -> IF express THEN 70 * Dollar ELSE 35 * Dollar
          [] OTHER -> IF express THEN 90 * Dollar ELSE 45 * Dollar

\* free above 50.00 (domestic, standard); 0.50 for each piece above 10
calculateShipping(countryCode, orderTotal, method, itemCount, tieUp) ==
    LET region == getShippingRegion(countryCode)
    IN  IF region = "UG" /\ orderTotal >= 50 * Dollar /\ method = "standard"
        THEN [cost |-> 0, isFree |-> TRUE]
        ELSE [cost |-> toFixed2(ShippingRate(region, method)
                                + (IF itemCount > 10
                                   THEN (itemCount - 10) * 500
                                   ELSE 0), Cent, tieUp),
              isFree |-> FALSE]

\* TAX_RATES, in percent
TaxRate(countryCode) ==
    CASE countryCode = "UG" -> 18
      [] countryCode = "KE" -> 16
      [] OTHER -> 0

calculateTax(countryCode, subtotal, tieUp) ==
    toFixed2(subtotal * TaxRate(countryCode), 100 * Cent, tieUp)

\* items.reduce(...): price * (qty || 1), and the count of pieces
RECURSIVE ItemsPrice(_)
ItemsPrice(items) ==
    IF items = <<>> THEN 0
    ELSE Head(items).price * (IF Head(items).qty = 0 THEN 1
                              ELSE Head(items).qty)
         + ItemsPrice(Tail(items))

RECURSIVE ItemCount(_)
ItemCount(items) ==
    IF items = <<>> THEN 0
    ELSE (IF Head(items).qty = 0 THEN 1 ELSE Head(items).qty)
         + ItemCount(Tail(items))

calculateOrderTotalsNoClamp(items, countryCode, method, couponDiscount, tieUp) ==
    LET itemsPrice == ItemsPrice(items)
        shipping == calculateShipping(countryCode, itemsPrice,
                                      method, ItemCount(items), tieUp)
        tax == calculateTax(countryCode, itemsPrice, tieUp)
        discount == couponDiscount
    IN  [itemsPrice |-> toFixed2(itemsPrice, Cent, tieUp),
         shippingPrice |-> shipping.cost,
         isFreeShipping |-> shipping.isFree,
         taxPrice |-> tax,
         discount |-> toFixed2(discount, Cent, tieUp),
         totalPrice |-> toFixed2(itemsPrice + shipping.cost + tax - discount,
                                 Cent, tieUp),
         itemCount |-> ItemCount(items)]

calculateOrderTotals(items, countryCode, method, couponDiscount, tieUp) ==
    LET itemsPrice == ItemsPrice(items)
        shipping == calculateShipping(countryCode, itemsPrice,
                                      method, ItemCount(items), tieUp)
        tax == calculateTax(countryCode, itemsPrice, tieUp)
        discount == IF couponDiscount <= itemsPrice THEN couponDiscount ELSE itemsPrice
    IN  [itemsPrice |-> toFixed2(itemsPrice, Cent, tieUp),
         shippingPrice |-> shipping.cost,
         isFreeShipping |-> shipping.isFree,
         taxPrice |-> tax,
         discount |-> toFixed2(discount, Cent, tieUp),
         totalPrice |-> toFixed2(itemsPrice + shipping.cost + tax - discount,
                                 Cent, tieUp),
         itemCount |-> ItemCount(items)]

\* the inputs of a call: a price of 6 is a fraction of a cent, 25 a price
\* whose tax is a decimal tie
CalcInputs ==
    LET Lines == [price : {0, 6, 25, 12990, 50000}, qty : {1, 2, 11}]
    IN  [items : UNION {[1 .. n -> Lines] : n \in 1 .. MaxLines},
         countryCode : {"UG", "KE", "DE", ""},
         shippingMethod : {"standard", "express", "pickup"},
         couponDiscount : {0, 2, 5000, 200000},
         tieUp : BOOLEAN]

\* calc: one call of calculateOrderTotals and what it returned
NoCalc == <<>>

Calculate ==
    /\ calc # NoCalc
    /\ calc.out = NoCalc
    /\ calc' = [calc EXCEPT !.out =
            calculateOrderTotals(calc.input.items, calc.input.countryCode,
                                 calc.input.shippingMethod,
                                 calc.input.couponDiscount, calc.input.tieUp)]
    /\ UNCHANGED <<orders, ledger, payload, del, cpi, faults, effects,
                   placeVars, keyed, authVars>>

\* ---- auth controller: refresh tokens (login, /refresh, /logout) and the
\* login lockout of the user model; one user, active and verified
MaxLogins == 2
MaxRefreshes == 3
MaxLogouts == 1
MaxTime == 3

\* user.model: the lockout constants, the lock time in ticks of the clock
MAX_LOGIN_ATTEMPTS == 5
LockTime == 2
NoLock == 0

\* streak: the failed attempts counted since the last successful login or
\* expiry of a lock
FreshAccount == [failedLoginAttempts |-> 0, lockUntil |-> NoLock, streak |-> 0]

\* the virtual isLocked, evaluated at time t
isLocked(user, t) == user.lockUntil # NoLock /\ user.lockUntil > t

\* this.updateOne(...) of incLoginAttempts: the update is computed from the
\* document the request loaded (`this`) and applied to the stored one
incLoginAttempts(this, stored, t) ==
    IF this.lockUntil # NoLock /\ this.lockUntil < t
    THEN [stored EXCEPT !.failedLoginAttempts = 1, !.lockUntil = NoLock]
    ELSE [stored EXCEPT
            !.failedLoginAttempts = @ + 1,
            !.lockUntil =
                IF this.failedLoginAttempts + 1 >= MAX_LOGIN_ATTEMPTS
                   /\ ~isLocked(this, t)
                THEN t + LockTime ELSE @]

resetLoginAttempts(stored) ==
    [stored EXCEPT !.failedLoginAttempts = 0, !.lockUntil = NoLock]

\* a RefreshToken document; its jti is its index in `tokens`
NewToken(familyId) ==
    [familyId |-> familyId, revoked |-> FALSE, reason |-> "none"]

\* updateMany({familyId, revokedAt: {$exists: false}}, {$set: ...})
revokeRefreshFamilyNone(toks, familyId, reason) == toks

revokeRefreshFamily(toks, familyId, reason) ==
    [j \in DOMAIN toks |->
        IF toks[j].familyId = familyId /\ ~toks[j].revoked
        THEN [toks[j] EXCEPT !.revoked = TRUE, !.reason = reason]
        ELSE toks[j]]

IdleLogin == [pc |-> "idle", pw |-> FALSE, read |-> <<>>, resp |-> NoStatus,
              issued |-> 0]

IdleRefresh == [pc |-> "idle", jti |-> 0, read |-> <<>>, resp |-> NoStatus,
                issued |-> 0]

\* login, lines 206-219: load the user, refuse a locked account; pw: the
\* password of the request is the user's
LoginFind(l, pw) ==
    /\ lg[l].pc = "idle"
    /\ \A k \in (1 .. MaxLogins) : k < l => lg[k].pc # "idle"
    /\ lg' = [lg EXCEPT ![l] =
         IF isLocked(acct, now)
         THEN [@ EXCEPT !.pc = "done", !.pw = pw, !.resp = 423]
         ELSE [@ EXCEPT !.pc = IF pw THEN "reset" ELSE "inc", !.pw = pw,
                        !.read = acct]]
    /\ UNCHANGED <<tokens, rf, acct, now, logouts, shopVars>>

\* lines 221-224: the password did not match, user.incLoginAttempts()
LoginInc(l) ==
    /\ lg[l].pc = "inc"
    /\ acct' = [incLoginAttempts(lg[l].read, acct, now) EXCEPT
                    !.streak = @ + 1]
    /\ lg' = [lg EXCEPT ![l] = [@ EXCEPT !.pc = "reread", !.read = <<>>]]
    /\ UNCHANGED <<tokens, rf, now, logouts, shopVars>>

\* lines 226-240: load the user again and answer 423 or 401
LoginReread(l) ==
    /\ lg[l].pc = "reread"
    /\ lg' = [lg EXCEPT ![l] =
         [@ EXCEPT !.pc = "done",
                   !.resp = IF isLocked(acct, now) THEN 423 ELSE 401]]
    /\ UNCHANGED <<tokens, rf, acct, now, logouts, shopVars>>

\* lines 243-254: the password matched, user.resetLoginAttempts()
LoginReset(l) ==
    /\ lg[l].pc = "reset"
    /\ acct' = [resetLoginAttempts(acct) EXCEPT !.streak = 0]
    /\ lg' = [lg EXCEPT ![l] = [@ EXCEPT !.pc = "create", !.read = <<>>]]
    /\ UNCHANGED <<tokens, rf, now, logouts, shopVars>>

\* lines 256-271: RefreshToken.create of a new family, the cookies, 200
LoginCreate(l) ==
    /\ lg[l].pc = "create"
    /\ tokens' = Append(tokens, NewToken(Len(tokens) + 1))
    /\ lg' = [lg EXCEPT ![l] =
         [@ EXCEPT !.pc = "done", !.resp = 200, !.issued = Len(tokens) + 1]]
    /\ UNCHANGED <<rf, acct, now, logouts, shopVars>>

\* the clock; a lock that is no longer active ends the streak
Tick ==
    /\ now < MaxTime
    /\ now' = now + 1
    /\ acct' = IF acct.lockUntil # NoLock /\ ~isLocked(acct, now + 1)
               THEN [acct EXCEPT !.streak = 0] ELSE acct
    /\ UNCHANGED <<tokens, rf, lg, logouts, shopVars>>

\* refresh, lines 392-416: the record of the presented token; t = 0 is a
\* token without a record
RefreshFind(r, t) ==
    /\ rf[r].pc = "idle"
    /\ \A k \in (1 .. MaxRefreshes) : k < r => rf[k].pc # "idle"
    /\ rf' = [rf EXCEPT ![r] =
         IF t = 0 THEN [@ EXCEPT !.pc = "done", !.resp = 401]
         ELSE [@ EXCEPT !.pc = IF tokens[t].revoked THEN "reuse"
                               ELSE "rotate",
                        !.jti = t, !.read = tokens[t]]]
    /\ UNCHANGED <<tokens, lg, acct, now, logouts, shopVars>>

\* lines 416-426: reuse detected, revokeRefreshFamily, 401
RefreshReuse(r) ==
    /\ rf[r].pc = "reuse"
    /\ tokens' = revokeRefreshFamily(tokens, rf[r].read.familyId,
                                     "reuse_detected")
    /\ rf' = [rf EXCEPT ![r] =
         [@ EXCEPT !.pc = "done", !.resp = 401, !.read = <<>>]]
    /\ UNCHANGED <<lg, acct, now, logouts, shopVars>>

\* lines 428-443: tokenRecord.save() with revokedAt set
RefreshSave(r) ==
    /\ rf[r].pc = "rotate"
    /\ tokens' = [tokens EXCEPT ![rf[r].jti] =
         SaveDoc(@, rf[r].read,
                 [rf[r].read EXCEPT !.revoked = TRUE, !.reason = "rotated"])]
    /\ rf' = [rf EXCEPT ![r] = [@ EXCEPT !.pc = "create"]]
    /\ UNCHANGED <<lg, acct, now, logouts, shopVars>>

\* lines 445-456: RefreshToken.create in the same family, the cookies, 200
RefreshCreate(r) ==
    /\ rf[r].pc = "create"
    /\ tokens' = Append(tokens, NewToken(rf[r].read.familyId))
    /\ rf' = [rf EXCEPT ![r] =
         [@ EXCEPT !.pc = "done", !.resp = 200, !.read = <<>>,
                   !.issued = Len(tokens) + 1]]
    /\ UNCHANGED <<lg, acct, now, logouts, shopVars>>

\* logout, lines 369-387: updateOne of the presented token if not revoked
Logout(t) ==
    /\ logouts < MaxLogouts
    /\ t \in DOMAIN tokens
    /\ tokens' = IF tokens[t].revoked THEN tokens
                 ELSE [tokens EXCEPT ![t].revoked = TRUE,
                                     ![t].reason = "logout"]
    /\ logouts' = logouts + 1
    /\ UNCHANGED <<rf, lg, acct, now, shopVars>>

\* the auth controller is not in use
IdleAuth ==
    /\ tokens = <<>> /\ rf = <<>> /\ lg = <<>> /\ acct = <<>>
    /\ now = 0 /\ logouts = 0

\* ---- payment.utils createPaymentIntent: the idempotency key, as the
\* string of characters the template literal builds
IdLen == 2
CurrencyLen == 3
OrderIds == [1 .. IdLen -> {"a", "1"}]
KeyAmounts == {1, 2, 12, 21}
KeyCurrencies == [1 .. CurrencyLen -> {"1", ":"}]
KeyInputs == [orderId : OrderIds, amount : KeyAmounts,
              currency : KeyCurrencies]

DigitChars == <<"0", "1", "2", "3", "4", "5", "6", "7", "8", "9">>

\* String(amount) for a non-negative integer
RECURSIVE Digits(_)
Digits(n) ==
    IF n < 10 THEN <<DigitChars[n + 1]>>
    ELSE Digits(n \div 10) \o <<DigitChars[(n % 10) + 1]>>

\* `pi:create:${metadata.orderId || 'order'}:${amount}:${currency}`
idempotencyKeyNoCurrency(orderId, amount, currency) ==
    <<"p", "i", ":", "c", "r", "e", "a", "t", "e", ":">>
    \o (IF orderId = <<>> THEN <<"o", "r", "d", "e", "r">> ELSE orderId)
    \o <<":">> \o Digits(amount) \o <<":">>

idempotencyKey(orderId, amount, currency) ==
    <<"p", "i", ":", "c", "r", "e", "a", "t", "e", ":">>
    \o (IF orderId = <<>> THEN <<"o", "r", "d", "e", "r">> ELSE orderId)
    \o <<":">> \o Digits(amount) \o <<":">> \o currency

\* keyed: two calls of createPaymentIntent and the keys they sent
NoKeyed == <<>>

\* no utility call is under way
IdleUtil == keyed = NoKeyed /\ calc = NoCalc /\ IdleAuth

\* the call `side` reaches paymentIntents.create
PaymentIntentsCreate(side) ==
    /\ keyed # NoKeyed
    /\ keyed.key[side] = <<>>
    /\ keyed' = [keyed EXCEPT !.key[side] =
            idempotencyKey(keyed.input[side].orderId,
                           keyed.input[side].amount,
                           keyed.input[side].currency)]
    /\ UNCHANGED <<orders, ledger, payload, del, cpi, faults, effects,
                   placeVars, calc, authVars>>

\* ---- payment.controller createPaymentIntent
\* req.user and req.body of a request
Owner == [id |-> "u1", isVerified |-> TRUE]
Requesters == {Owner, [id |-> "u2", isVerified |-> TRUE],
               [id |-> "u1", isVerified |-> FALSE]}
Bodies == [currency : {"", "EUR"}, amount : {NoAmount, AmountOther}]

IdleCpi == [pc |-> "idle", n |-> 0, target |-> NoOrder, read |-> <<>>,
            currency |-> "", amount |-> NoAmount, requester |-> <<>>,
            body |-> <<>>, resp |-> NoStatus]

\* Math.round((Number(order.totalPrice) || 0) * 100): the model keeps the
\* two-decimal totals in cents
AmountCentsFromBody(rd, body) ==
    IF body.amount # NoAmount THEN body.amount ELSE rd.totalCents

AmountCents(rd, body) == rd.totalCents

\* lines 12-35: the status a request is refused with, NoStatus if it is not
RefusalNoOwnerCheck(o, user, body) ==
    IF ~user.isVerified THEN 403
    ELSE IF o \notin DOMAIN orders THEN 404
    ELSE IF orders[o].isPaid THEN 400
    ELSE IF AmountCents(orders[o], body) <= 0 THEN 400
    ELSE NoStatus

Refusal(o, user, body) ==
    IF ~user.isVerified THEN 403
    ELSE IF o \notin DOMAIN orders THEN 404
    ELSE IF orders[o].user # user.id THEN 403
    ELSE IF orders[o].isPaid THEN 400
    ELSE IF AmountCents(orders[o], body) <= 0 THEN 400
    ELSE NoStatus

\* lines 5-36: up to the call of the processor
CpiBegin(o, user, body) ==
    /\ cpi.pc = "idle" /\ cpi.n < MaxIntents
    /\ cpi' = IF Refusal(o, user, body) # NoStatus
              THEN [cpi EXCEPT !.n = @ + 1, !.target = o,
                               !.requester = user, !.body = body,
                               !.resp = Refusal(o, user, body)]
              ELSE [cpi EXCEPT !.n = @ + 1, !.pc = "call",
                               !.target = o, !.read = orders[o],
                               !.currency = NormalizeCurrency(body.currency),
                               !.amount = AmountCents(orders[o], body),
                               !.requester = user, !.body = body,
                               !.resp = NoStatus]
    /\ UNCHANGED <<orders, ledger, payload, del, faults, effects,
                   placeVars, utilVars>>

\* lines 38-55: the processor returns the intent, the order is saved
CpiFinish(ok) ==
    LET o == cpi.target
        rd == cpi.read
        new == [rd EXCEPT !.payStatus = "pending",
                          !.intentId = IntentId(o, cpi.amount, cpi.currency),
                          !.payCurrency = cpi.currency,
                          !.payAmount = cpi.amount,
                          !.failureReason = NoReason, !.isPaid = FALSE]
    IN  /\ cpi.pc = "call"
        /\ Fault(ok)
        /\ orders' = IF ok THEN [orders EXCEPT ![o] = SaveDoc(@, rd, new)]
                     ELSE orders
        /\ cpi' = [IdleCpi EXCEPT !.n = cpi.n,
                                  !.resp = IF ok THEN 200 ELSE 500]
        /\ UNCHANGED <<ledger, payload, del, effects, placeVars, utilVars>>

\* ---- admin.controller updateOrderStatus
Statuses == {"pending", "confirmed", "processing", "shipped", "delivered",
             "cancelled", "returned", "refunded"}

UpdateOrderStatus(o, status) ==
    /\ adminOps < MaxAdminOps
    /\ o \in DOMAIN orders
    /\ orders' = [orders EXCEPT ![o].status = status]
    /\ adminOps' = adminOps + 1
    /\ UNCHANGED <<products, coupon, req, initStock, isoInput, whVars>>

\* ---- the events the processor can sign
Event(type, orderId, amount, currency, intent) ==
    [type |-> type, orderId |-> orderId, amount |-> amount,
     currency |-> currency, intent |-> intent]

Payloads ==
    LET pi == IntentId(1, AmountDue, "usd")
    IN  << Event(SucceededT, 1, AmountDue, "usd", pi),
           Event(SucceededT, 1, AmountOther, "usd", pi),
           Event(SucceededT, 1, AmountDue, "eur", pi),
           Event(FailedT, 1, NoAmount, "", pi),
           Event(FailedT, NoOrder, NoAmount, "", pi),
           Event(RefundedT, NoOrder, AmountDue, "", pi),
           Event("customer.created", NoOrder, NoAmount, "", NoIntent) >>

InitWebhookIdle ==
    /\ ledger = <<>>
    /\ payload = <<>>
    /\ del = <<>>
    /\ cpi = IdleCpi
    /\ faults = 0
    /\ effects = <<>>
    /\ IdleUtil

InitPlaceIdle ==
    /\ products = <<>>
    /\ coupon = <<>>
    /\ req = <<>>
    /\ adminOps = 0
    /\ initStock = <<>>
    /\ isoInput = <<>>

PlacedOrder == OrderDoc(1, "u1", <<[productId |-> "p1", qty |-> 1]>>, AmountDue)

InitWebhook ==
    /\ InitPlaceIdle
    /\ orders = (1 :> PlacedOrder)
    /\ ledger = <<>>
    /\ \E i, j \in 1 .. Len(Payloads) :
        /\ i <= j
        /\ payload = ("evt_1" :> Payloads[i]) @@ ("evt_2" :> Payloads[j])
    /\ del = [d \in Deliveries |-> IdleDel]
    /\ cpi = IdleCpi
    /\ faults = 0
    /\ effects = [e \in EventIds |-> 0]
    /\ IdleUtil

NextWebhook ==
    \/ \E d \in Deliveries, e \in EventIds, sig \in Signatures,
          ok \in BOOLEAN : Receive(d, e, sig, ok)
    \/ \E d \in Deliveries, ok \in BOOLEAN : HandlerRead(d, ok)
    \/ \E d \in Deliveries, ok \in BOOLEAN : HandlerSave(d, ok)
    \/ \E d \in Deliveries, ok \in BOOLEAN : OnError(d, ok)
    \/ \E d \in Deliveries, ok \in BOOLEAN, clears \in BOOLEAN :
          Stamp(d, ok, clears)
    \/ \E o \in DOMAIN orders, c \in {"usd", "EUR"} :
          CpiBegin(o, Owner, [currency |-> c, amount |-> NoAmount])
    \/ \E ok \in BOOLEAN : CpiFinish(ok)

SpecWebhook == InitWebhook /\ [][NextWebhook]_vars

\* ---- the provider's redelivery of one event: a delivery that was answered
\* with a failure is sent again
Redeliver(d) ==
    /\ del[d].pc = "done" /\ del[d].resp = 500
    /\ del' = [del EXCEPT ![d] = IdleDel]
    /\ UNCHANGED <<orders, ledger, payload, cpi, faults, effects,
                   placeVars, utilVars>>

\* the placed order after a createPaymentIntent in usd
OrderWithIntent ==
    [PlacedOrder EXCEPT !.intentId = IntentId(1, AmountDue, "usd"),
                        !.payAmount = AmountDue]

InitRetry ==
    /\ InitPlaceIdle
    /\ orders \in {(1 :> PlacedOrder), (1 :> OrderWithIntent)}
    /\ ledger = <<>>
    /\ \E i \in 1 .. Len(Payloads) :
        payload = ("evt_1" :> Payloads[i]) @@ ("evt_2" :> Payloads[i])
    /\ del = [d \in Deliveries |-> IdleDel]
    /\ cpi = IdleCpi
    /\ faults = 0
    /\ effects = [e \in EventIds |-> 0]
    /\ IdleUtil

NextRetry ==
    \/ \E ok \in BOOLEAN : Receive(1, "evt_1", WebhookSecret, ok)
    \/ \E ok \in BOOLEAN : HandlerRead(1, ok)
    \/ \E ok \in BOOLEAN : HandlerSave(1, ok)
    \/ \E ok \in BOOLEAN : OnError(1, ok)
    \/ \E ok \in BOOLEAN, clears \in BOOLEAN : Stamp(1, ok, clears)
    \/ Redeliver(1)

\* the server runs every handler it started, the provider keeps redelivering,
\* and store failures are transient (at most MaxFaults of them)
SpecRetry == InitRetry /\ [][NextRetry]_vars /\ WF_vars(NextRetry)

\* ---- events that arrive for an order that is already settled: paid by a
\* succeeded event, cancelled by the operator, or refunded
PaidOrder == markOrderPaid(OrderWithIntent, Payloads[1]).doc

CancelledOrder == [PlacedOrder EXCEPT !.status = "cancelled"]

RefundedOrder == markOrderRefunded(PaidOrder, Payloads[6]).doc

InitLate ==
    /\ InitPlaceIdle
    /\ orders \in {(1 :> PaidOrder), (1 :> CancelledOrder),
                   (1 :> RefundedOrder)}
    /\ ledger = <<>>
    /\ \E i, j \in 1 .. Len(Payloads) :
        /\ i <= j
        /\ payload = ("evt_1" :> Payloads[i]) @@ ("evt_2" :> Payloads[j])
    /\ del = [d \in Deliveries |-> IdleDel]
    /\ cpi = IdleCpi
    /\ faults = 0
    /\ effects = [e \in EventIds |-> 0]
    /\ IdleUtil

SpecLate == InitLate /\ [][NextWebhook]_vars

\* ---- the keys of two calls of payment.utils createPaymentIntent
InitKey ==
    /\ InitPlaceIdle
    /\ orders = <<>>
    /\ ledger = <<>> /\ payload = <<>> /\ del = <<>> /\ cpi = IdleCpi
    /\ faults = 0 /\ effects = <<>>
    /\ \E a, b \in KeyInputs :
        keyed = [input |-> <<a, b>>, key |-> << <<>>, <<>> >>]
    /\ calc = NoCalc
    /\ IdleAuth

NextKey == \E side \in {1, 2} : PaymentIntentsCreate(side)

SpecKey == InitKey /\ [][NextKey]_vars

\* ---- one call of shipping.utils calculateOrderTotals
InitTotals ==
    /\ InitPlaceIdle
    /\ orders = <<>>
    /\ ledger = <<>> /\ payload = <<>> /\ del = <<>> /\ cpi = IdleCpi
    /\ faults = 0 /\ effects = <<>>
    /\ keyed = NoKeyed
    /\ IdleAuth
    /\ \E in \in CalcInputs : calc = [input |-> in, out |-> NoCalc]

NextTotals == Calculate

SpecTotals == InitTotals /\ [][NextTotals]_vars

\* ---- the auth controller alone
InitShopIdle ==
    /\ InitPlaceIdle
    /\ orders = <<>>
    /\ ledger = <<>> /\ payload = <<>> /\ del = <<>> /\ cpi = IdleCpi
    /\ faults = 0 /\ effects = <<>>
    /\ keyed = NoKeyed /\ calc = NoCalc

\* sessions: logins with the right password, refreshes, logouts
InitTokens ==
    /\ InitShopIdle
    /\ tokens = <<>>
    /\ rf = [r \in (1 .. MaxRefreshes) |-> IdleRefresh]
    /\ lg = [l \in (1 .. MaxLogins) |-> IdleLogin]
    /\ acct = FreshAccount
    /\ now = 1
    /\ logouts = 0

NextTokens ==
    \/ \E l \in (1 .. MaxLogins) : LoginFind(l, TRUE)
    \/ \E l \in (1 .. MaxLogins) : LoginReset(l)
    \/ \E l \in (1 .. MaxLogins) : LoginCreate(l)
    \/ \E r \in (1 .. MaxRefreshes), t \in 0 .. Len(tokens) : RefreshFind(r, t)
    \/ \E r \in (1 .. MaxRefreshes) : RefreshReuse(r)
    \/ \E r \in (1 .. MaxRefreshes) : RefreshSave(r)
    \/ \E r \in (1 .. MaxRefreshes) : RefreshCreate(r)
    \/ \E t \in 1 .. Len(tokens) : Logout(t)

SpecTokens == InitTokens /\ [][NextTokens]_vars

\* logins on an account that has some failed attempts behind it
InitLogin ==
    /\ InitShopIdle
    /\ tokens = <<>>
    /\ rf = [r \in (1 .. MaxRefreshes) |-> IdleRefresh]
    /\ lg = [l \in (1 .. MaxLogins) |-> IdleLogin]
    /\ \E k \in 0 .. MAX_LOGIN_ATTEMPTS - 1 :
        acct = [FreshAccount EXCEPT !.failedLoginAttempts = k, !.streak = k]
    /\ now = 1
    /\ logouts = 0

NextLogin ==
    \/ \E l \in (1 .. MaxLogins), pw \in BOOLEAN : LoginFind(l, pw)
    \/ \E l \in (1 .. MaxLogins) : LoginInc(l)
    \/ \E l \in (1 .. MaxLogins) : LoginReread(l)
    \/ \E l \in (1 .. MaxLogins) : LoginReset(l)
    \/ \E l \in (1 .. MaxLogins) : LoginCreate(l)
    \/ Tick

SpecLogin == InitLogin /\ [][NextLogin]_vars

\* ---- one order's life: intents, events delivered one after the other,
\* operator status updates
FreeOrder == OrderDoc(1, "u1", <<[productId |-> "p1", qty |-> 1]>>, 0)

InitLifecycle ==
    /\ InitPlaceIdle
    /\ orders \in {(1 :> PlacedOrder), (1 :> OrderWithIntent),
                   (1 :> FreeOrder)}
    /\ ledger = <<>>
    /\ \E i \in 1 .. Len(Payloads) :
        payload = ("evt_1" :> Payloads[i]) @@ ("evt_2" :> Payloads[i])
    /\ del = [d \in Deliveries |-> IdleDel]
    /\ cpi = IdleCpi
    /\ faults = 0
    /\ effects = [e \in EventIds |-> 0]
    /\ IdleUtil

NoneInFlight == \A d \in Deliveries : del[d].pc \in {"idle", "done"}

NextLifecycle ==
    \/ \E d \in Deliveries, sig \in Signatures :
          NoneInFlight /\ Receive(d, "evt_1", sig, TRUE)
    \/ \E d \in Deliveries : HandlerRead(d, TRUE)
    \/ \E d \in Deliveries : HandlerSave(d, TRUE)
    \/ \E d \in Deliveries : Stamp(d, TRUE, TRUE)
    \/ \E o \in 1 .. 2, user \in Requesters, body \in Bodies :
          CpiBegin(o, user, body)
    \/ \E ok \in BOOLEAN : CpiFinish(ok)
    \/ \E o \in DOMAIN orders, status \in Statuses :
          UpdateOrderStatus(o, status)

SpecLifecycle == InitLifecycle /\ [][NextLifecycle]_vars

\* ------------------------------------------------------------ specification
ProductDoc == [exists : {TRUE}, enabled : {TRUE}, isDeleted : BOOLEAN,
               countInStock : 0 .. MaxStock]

CouponDoc == [usedCount : {0}, usedBy : [Users -> {0}],
              usageLimit : 1 .. MaxUsageLimit, usageLimitPerUser : {1}]

NoInput == [raw |-> <<>>, couponCode |-> FALSE, couponThrows |-> FALSE,
            saveFails |-> FALSE]

InitOrders ==
    /\ \E ps \in [Products -> ProductDoc] :
        /\ ps["p1"].isDeleted = FALSE
        /\ products = [d \in Dbs |-> ps]
    /\ \E c \in CouponDoc : coupon = [d \in Dbs |-> c]
    /\ orders = <<>>
    /\ req = [r \in Requests |-> IdleReq]
    /\ adminOps = 0
    /\ initStock = [p \in Products |-> products[1][p].countInStock]
    /\ isoInput = NoInput
    /\ InitWebhookIdle

NextOrders ==
    \/ \E r \in Requests, raw \in RawItemLists, path \in {"txn", "fallback"} :
            Begin(r, raw, path, 1)
    \/ \E r \in Requests : FallbackReserve(r)
    \/ \E r \in Requests : TxnReserve(r)
    \/ \E r \in Requests, cc \in BOOLEAN : Snapshot(r, cc)
    \/ \E r \in Requests, throws \in BOOLEAN : CouponFind(r, throws)
    \/ \E r \in Requests : CouponSave(r)
    \/ \E r \in Requests, fails \in BOOLEAN : SaveOrder(r, fails)
    \/ \E r \in Requests : Compensate(r)
    \/ \E p \in Products : SetProductVisibility(p)
    \/ \E p \in Products : DeleteProduct(p)

SpecOrders == InitOrders /\ [][NextOrders]_vars

\* ------------------------------------------- the two paths, in isolation
\* request 1 takes the transactional path on database 1, request 2 the
\* fallback path on database 2; both get the same input and the same store
IsoProductDoc == [exists : BOOLEAN, enabled : BOOLEAN, isDeleted : BOOLEAN,
                  countInStock : 0 .. MaxStock]

IsoInputs == [raw : RawItemLists, couponCode : BOOLEAN,
              couponThrows : BOOLEAN, saveFails : BOOLEAN]

InitIso ==
    /\ \E ps \in [Products -> IsoProductDoc] :
        /\ \A p \in Products : ~ps[p].exists =>
              (ps[p].enabled /\ ~ps[p].isDeleted /\ ps[p].countInStock = 0)
        /\ products = [d \in Dbs |-> ps]
    /\ \E c \in CouponDoc : coupon = [d \in Dbs |-> c]
    /\ orders = <<>>
    /\ req = [r \in Requests |-> IdleReq]
    /\ adminOps = 0
    /\ initStock = [p \in Products |-> products[1][p].countInStock]
    /\ isoInput \in IsoInputs
    /\ isoInput.couponThrows => isoInput.couponCode
    /\ InitWebhookIdle

IsoPath(r) == IF r = 1 THEN "txn" ELSE "fallback"

NextIso ==
    \/ \E r \in {1, 2} : Begin(r, isoInput.raw, IsoPath(r), r)
    \/ \E r \in {1, 2} : FallbackReserve(r)
    \/ \E r \in {1, 2} : TxnReserve(r)
    \/ \E r \in {1, 2} : Snapshot(r, isoInput.couponCode)
    \/ \E r \in {1, 2} : CouponFind(r, isoInput.couponThrows)
    \/ \E r \in {1, 2} : CouponSave(r)
    \/ \E r \in {1, 2} : SaveOrder(r, isoInput.saveFails)
    \/ \E r \in {1, 2} : Compensate(r)

SpecIso == InitIso /\ [][NextIso]_vars

\* ------------------------------------------------------------------ claims
RECURSIVE OrderedQty(_, _)
OrderedQty(S, p) ==
    IF S = {} THEN 0
    ELSE LET o == CHOOSE x \in S : TRUE
         IN  QtyOf(orders[o].items, p) + OrderedQty(S \ {o}, p)

\* what the requests in S have taken from the committed stock of p
RECURSIVE CommittedOwed(_, _)
CommittedOwed(S, p) ==
    IF S = {} THEN 0
    ELSE LET r == CHOOSE x \in S : TRUE
         IN  (IF InTxn(req[r]) \/ req[r].db # 1 THEN 0 ELSE req[r].owed[p])
             + CommittedOwed(S \ {r}, p)

\* the stock of an existing product is its initial stock minus what the
\* requests hold
StockConservation ==
    \A p \in Products :
        products[1][p].exists =>
            products[1][p].countInStock + CommittedOwed(Requests, p)
                = initStock[p]

\* C1: the quantities of a product in the orders that were created sum to at
\* most the product's initial stock, under every interleaving of requests on
\* either path
C1_NoOversell ==
    \A p \in Products : OrderedQty(DOMAIN orders, p) <= initStock[p]

\* two requests competed for the last unit of p1: one order holds it, the
\* other request was refused
C1_Witness ==
    /\ initStock["p1"] > 0
    /\ 1 \in DOMAIN orders
    /\ QtyOf(orders[1].items, "p1") = initStock["p1"]
    /\ req[2].pc = "done" /\ req[2].guardFailed

\* C5: a request one of whose items failed the stock guard answers 409,
\* persists no order and holds nothing of any product when it completes
C5_AllOrNothing ==
    /\ \A r \in Requests :
        (req[r].pc = "done" /\ req[r].guardFailed) =>
            /\ req[r].status = 409
            /\ r \notin DOMAIN orders
            /\ req[r].owed = ZeroDec
    /\ StockConservation

\* a request whose second item failed the guard after its first was taken
C5_Witness ==
    \E r \in Requests :
        /\ req[r].pc = "done" /\ req[r].guardFailed /\ req[r].ndec = 1
        /\ req[r].path = "fallback"
        /\ \A p \in Products :
              products[1][p].exists /\ products[1][p].countInStock = initStock[p]

\* C6: a failed fallback attempt gives back every decrement it made: while
\* it compensates, the pending increments are exactly what it still holds,
\* and when it has answered it holds nothing
RECURSIVE PendingComp(_, _, _)
PendingComp(rq, S, p) ==
    IF S = {} THEN 0
    ELSE LET i == CHOOSE x \in S : TRUE
         IN  (IF rq.items[i].productId = p THEN rq.items[i].qty ELSE 0)
             + PendingComp(rq, S \ {i}, p)

C6_FallbackCompensation ==
    /\ \A r \in Requests :
        /\ req[r].pc = "compensate" =>
              \A p \in Products :
                  PendingComp(req[r], req[r].comp, p) = req[r].owed[p]
        /\ (req[r].pc = "done" /\ req[r].path = "fallback"
              /\ req[r].status # 201) => req[r].owed = ZeroDec
    /\ \A p \in Products :
        products[1][p].exists =>
            products[1][p].countInStock + CommittedOwed(Requests, p)
                = initStock[p]

\* a two-item fallback attempt that failed after both decrements (at the
\* coupon or the save) and has given both back
C6_Witness ==
    \E r \in Requests :
        /\ req[r].pc = "done" /\ req[r].path = "fallback"
        /\ req[r].status = 500 /\ req[r].ndec = 2
        /\ req[r].owed = ZeroDec

\* C7: run in isolation on equal stores with equal input, the transactional
\* and the fallback path answer the same status, leave the same stock and
\* persist the same order or none
C7_PathsEquivalent ==
    (req[1].pc = "done" /\ req[2].pc = "done") =>
        /\ req[1].status = req[2].status
        /\ products[1] = products[2]
        /\ (1 \in DOMAIN orders) <=> (2 \in DOMAIN orders)
        /\ (1 \in DOMAIN orders) =>
              [orders[1] EXCEPT !.db = 1] = [orders[2] EXCEPT !.db = 1]

\* both paths refused a two-item request at its second item
C7_Witness ==
    /\ req[1].pc = "done" /\ req[2].pc = "done"
    /\ req[1].status = 409 /\ req[2].status = 409
    /\ req[1].ndec = 1 /\ req[2].ndec = 1

Processed(e) == e \in DOMAIN ledger /\ ledger[e].processedAt

\* a delivery of an event to the handler stage or to an answer
Arrives(d) == del[d].pc = "idle" /\ del'[d].pc # "idle"

\* C2: a verified delivery of an event whose record already has processedAt
\* is answered 200 with the duplicate acknowledgment, runs no handler and
\* leaves the orders unchanged
C2_DuplicateAck ==
    [][\A d \in Deliveries :
        (/\ Arrives(d)
         /\ Processed(del'[d].event)
         /\ del'[d].resp \notin {400, 500})
        => /\ del'[d].pc = "done"
           /\ del'[d].resp = 200
           /\ del'[d].duplicate
           /\ ~del'[d].ranHandler
           /\ ~del'[d].wrote
           /\ orders' = orders]_vars

\* the first delivery paid the order and stamped the event, the second was
\* acknowledged as a duplicate
C2_Witness ==
    /\ del[1].pc = "done" /\ del[1].wrote /\ del[1].stamped
    /\ del[2].pc = "done" /\ del[2].duplicate /\ del[2].event = del[1].event
    /\ orders[1].isPaid
    /\ effects[del[1].event] = 1

\* C11: a delivery whose signature is missing or was not computed with the
\* endpoint's secret is answered 400 and neither the ledger nor any order
\* changes
C11_UnverifiedRejected ==
    [][\A d \in Deliveries :
        (Arrives(d) /\ ~del'[d].genuine)
        => /\ del'[d].pc = "done"
           /\ del'[d].resp = 400
           /\ ~del'[d].ranHandler
           /\ ledger' = ledger
           /\ orders' = orders]_vars

\* a forged delivery of an event was rejected: the event has no record and
\* the order is as it was placed
C11_Witness ==
    \E d \in Deliveries :
        /\ del[d].pc = "done" /\ ~del[d].genuine /\ del[d].resp = 400
        /\ del[d].event \notin DOMAIN ledger
        /\ orders[1] = PlacedOrder

\* the settled amount or currency of the event differs from what the order
\* records as expected
Differs(rd, ev) ==
    \/ rd.payAmount # NoAmount /\ ev.amount # rd.payAmount
    \/ ev.currency # rd.payCurrency

\* C3: a payment-succeeded handler that read an order whose recorded amount
\* or currency differs from the event's saves the order unpaid, with
\* payment.status failed and a failureReason, and its save never changes
\* isPaid
C3_MismatchNeverPaid ==
    [][\A d \in Deliveries :
        LET ev == payload[del[d].event] IN
        /\ (/\ del[d].pc = "handler" /\ del'[d].pc = "save"
            /\ ev.type = SucceededT
            /\ Differs(del'[d].read, ev))
           => /\ ~del'[d].new.isPaid
              /\ del'[d].new.payStatus = "failed"
              /\ del'[d].new.failureReason # NoReason
              /\ del'[d].new.status = del'[d].read.status
        /\ (/\ del[d].pc = "save" /\ del'[d].pc = "stamp"
            /\ ev.type = SucceededT
            /\ Differs(del[d].read, ev))
           => orders'[del[d].target].isPaid = orders[del[d].target].isPaid]_vars

\* an event with another amount than the intent's was processed: the order
\* is unpaid and failed
C3_Witness ==
    \E d \in Deliveries :
        /\ del[d].stamped /\ del[d].wrote
        /\ payload[del[d].event].type = SucceededT
        /\ payload[del[d].event].amount = AmountOther
        /\ orders[1].payAmount = AmountDue
        /\ ~orders[1].isPaid
        /\ orders[1].payStatus = "failed"
        /\ orders[1].failureReason = "Payment amount mismatch"

C8_ProcessedAfterHandler ==
    /\ \A e \in EventIds :
        Processed(e) =>
            \E d \in Deliveries :
                /\ del[d].event = e /\ del[d].stamped
                /\ del[d].handlerDone /\ ~del[d].failed
    /\ \A d \in Deliveries :
        del[d].pc = "stamp" =>
            del[d].handlerDone /\ del[d].read = <<>> /\ del[d].new = <<>>

\* the event was stamped after its handler had written the order
C8_Witness ==
    \E d \in Deliveries :
        /\ del[d].stamped /\ del[d].wrote /\ Processed(del[d].event)
        /\ payload[del[d].event].type = RefundedT
        /\ orders[1].status = "refunded"

\* C9: a delivery whose handler failed answers 500, records lastError (if
\* the ledger takes the write at all) and does not stamp processedAt; a
\* delivery that arrives while processedAt is unset goes to the handler and
\* is not acknowledged as a duplicate
C9_FailureIsRetried ==
    [][\A d \in Deliveries :
        /\ (del[d].pc = "onError" /\ del'[d].pc # "onError")
           => /\ del'[d].pc = "done" /\ del'[d].resp = 500
              /\ ledger'[del[d].event].lastError \/ ledger' = ledger
              /\ ledger'[del[d].event].processedAt
                    = ledger[del[d].event].processedAt
        /\ del'[d].failed => (del'[d].pc \in {"onError", "done"}
                              /\ ~del'[d].stamped)
        /\ (/\ Arrives(d)
            /\ ~Processed(del'[d].event)
            /\ del'[d].resp \notin {400, 500})
           => del'[d].pc = "handler" /\ ~del'[d].duplicate]_vars

\* the first delivery failed in its handler, the second delivery of the same
\* event ran the handler again and stamped the event
C9_Witness ==
    /\ del[1].pc = "done" /\ del[1].failed /\ del[1].resp = 500
    /\ del[2].event = del[1].event /\ del[2].ranHandler /\ del[2].stamped
    /\ ledger[del[1].event].attempts = 2
    /\ ledger[del[1].event].lastError

\* the handler has nothing left to do on the order the event is about
Applied(e) ==
    LET ev == payload[e]
        o == TargetOf(ev)
    IN  o # NoOrder =>
            LET res == Dispatch(orders[o], ev)
            IN  ~res.save \/ res.doc = orders[o]

\* C10: an event that is redelivered until it is answered with success is
\* eventually stamped, the deliveries change the order at most once, and
\* when the event is stamped its effect is in the order
C10_NoEventLost ==
    /\ <>Processed("evt_1")
    /\ [](effects["evt_1"] <= 1)
    /\ [](Processed("evt_1") => Applied("evt_1"))

\* the stamp of the first attempt failed after the order was paid; the
\* second attempt stamped the event without touching the order again
C10_Witness ==
    /\ Processed("evt_1")
    /\ ledger["evt_1"].attempts = 2
    /\ faults = 1
    /\ ~ledger["evt_1"].lastError
    /\ orders[1].isPaid
    /\ effects["evt_1"] = 1

\* the payment sub-state of an order
PaymentOf(doc) ==
    <<doc.isPaid, doc.payStatus, doc.payAmount, doc.payCurrency,
      doc.intentId, doc.failureReason, doc.refundAmount>>

\* C12: no step changes the payment sub-state or isPaid of an order whose
\* status is refunded
C12_RefundedIsTerminal ==
    [][\A o \in DOMAIN orders :
        orders[o].status = "refunded"
        => PaymentOf(orders'[o]) = PaymentOf(orders[o])]_vars

\* C13: an order goes from pending to confirmed only in the save of a
\* handler that processes a verified payment-succeeded event
C13_ConfirmedOnlyByEvent ==
    [][\A o \in DOMAIN orders :
        (orders[o].status = "pending" /\ orders'[o].status = "confirmed")
        => \E d \in Deliveries :
              /\ del[d].pc = "save" /\ del'[d].pc = "stamp"
              /\ del[d].target = o /\ del[d].genuine
              /\ payload[del[d].event].type = SucceededT]_vars

\* the operator's progression of statuses
Progression == <<"pending", "confirmed", "processing", "shipped", "delivered">>

Rank(status) == CHOOSE i \in 1 .. Len(Progression) : Progression[i] = status

Progresses(status) == \E i \in 1 .. Len(Progression) : Progression[i] = status

\* C14: an operator status update never moves an order back along pending,
\* confirmed, processing, shipped, delivered
C14_NoRegression ==
    [][adminOps' # adminOps
       => \A o \in DOMAIN orders :
            (Progresses(orders[o].status) /\ Progresses(orders'[o].status))
            => Rank(orders'[o].status) >= Rank(orders[o].status)]_vars

\* C15: a createPaymentIntent request by someone who is not the order's
\* creator is refused with 403, one for a paid order with 400 and one for an
\* order whose total is not positive with 400; a refused request does not
\* reach the processor call and leaves the orders unchanged
C15_IntentRefusals ==
    [][cpi'.n = cpi.n + 1
       => LET o == cpi'.target
              u == cpi'.requester
              refused == cpi'.pc = "idle" /\ orders' = orders
          IN  o \in DOMAIN orders
              => /\ orders[o].user # u.id
                    => cpi'.resp = 403 /\ refused
                 /\ (orders[o].user = u.id /\ u.isVerified
                        /\ orders[o].isPaid)
                    => cpi'.resp = 400 /\ refused
                 /\ (orders[o].user = u.id /\ u.isVerified
                        /\ orders[o].totalCents <= 0)
                    => cpi'.resp = 400 /\ refused]_vars

\* the owner asked for an intent for an order that an event had paid
C15_Witness ==
    /\ cpi.pc = "idle" /\ cpi.n = 1 /\ cpi.resp = 400
    /\ cpi.requester = Owner
    /\ orders[cpi.target].isPaid /\ orders[cpi.target].payStatus = "paid"

\* C16: a createPaymentIntent that succeeds sent the order's stored total in
\* cents to the processor, whatever amount the body carried, and (no other
\* writer having touched the order since it was read) the order then holds
\* the returned intent, that amount, the lower-cased currency, payment.status
\* pending, no failureReason and isPaid false
C16_IntentFromStoredTotal ==
    [][(cpi.pc = "call" /\ cpi'.resp = 200)
       => LET o == cpi.target
              total == orders[o].totalCents
              currency == IF cpi.body.currency = "EUR" THEN "eur" ELSE "usd"
          IN  /\ cpi.amount = total
              /\ cpi.currency = currency
              /\ orders[o] = cpi.read
                 => /\ orders'[o].intentId = IntentId(o, total, currency)
                    /\ orders'[o].payAmount = total
                    /\ orders'[o].payCurrency = currency
                    /\ orders'[o].payStatus = "pending"
                    /\ orders'[o].failureReason = NoReason
                    /\ ~orders'[o].isPaid
                    /\ orders'[o].status = orders[o].status]_vars

\* a payment-failed event had marked the order failed; the intent created
\* afterwards reset it to pending and cleared the reason
C16_Witness ==
    /\ payload["evt_1"].type = FailedT
    /\ effects["evt_1"] = 1
    /\ cpi.n = 1 /\ cpi.resp = 200
    /\ orders[1].payStatus = "pending"
    /\ orders[1].failureReason = NoReason
    /\ orders[1].payCurrency = "eur"
    /\ orders[1].payAmount = AmountDue
    /\ orders[1].intentId = IntentId(1, AmountDue, "eur")

\* C17: two calls send the same idempotency key exactly when they agree in
\* order id, amount and currency
C17_KeyDeterminesTriple ==
    (keyed # NoKeyed /\ keyed.key[1] # <<>> /\ keyed.key[2] # <<>>)
    => (keyed.key[1] = keyed.key[2] <=> keyed.input[1] = keyed.input[2])

\* two calls for the same order and amount in two currencies sent two keys
C17_Witness ==
    /\ keyed # NoKeyed /\ keyed.key[1] # <<>> /\ keyed.key[2] # <<>>
    /\ keyed.input[1].orderId = keyed.input[2].orderId
    /\ keyed.input[1].amount = 12 /\ keyed.input[2].amount = 12
    /\ keyed.input[1].currency # keyed.input[2].currency
    /\ keyed.key[1] # keyed.key[2]

\* the entries of usedBy, over all users
RECURSIVE Redemptions(_, _)
Redemptions(cp, U) ==
    IF U = {} THEN 0
    ELSE LET u == CHOOSE x \in U : TRUE
         IN  UserUses(cp, u) + Redemptions(cp, U \ {u})

\* C18: when no placement is in flight, every recorded use of the coupon
\* belongs to a persisted order: the uses do not outnumber the orders
C18_UsageOnlyForOrders ==
    (\A r \in Requests : req[r].pc \in {"idle", "done"})
    => Redemptions(coupon[1], Users) <= Cardinality(DOMAIN orders)

\* C19: the recorded redemptions of the coupon never exceed usageLimit, nor
\* those of one user usageLimitPerUser
C19_UsageWithinLimits ==
    /\ Redemptions(coupon[1], Users) <= coupon[1].usageLimit
    /\ coupon[1].usedCount <= coupon[1].usageLimit
    /\ \A u \in Users : UserUses(coupon[1], u) <= coupon[1].usageLimitPerUser

\* C20: the stock of every product is at least 0, also while reservations
\* and compensations are in flight
C20_StockNonNegative ==
    \A d \in DOMAIN products : \A p \in Products :
        products[d][p].countInStock >= 0

\* a fallback attempt holds the whole stock of p1 and another one is giving
\* back what it took
C20_Witness ==
    \E r, q \in Requests :
        /\ req[r].pc = "compensate" /\ req[q].path = "fallback"
        /\ req[q].pc \in {"snapshot", "coupon", "couponSave", "save"}
        /\ req[q].owed["p1"] > 0
        /\ products[1]["p1"].countInStock = 0

\* C21: calculateOrderTotals returns a discount that is at most the items
\* subtotal and a total that is never negative; the total is items +
\* shipping + tax - discount, exactly when the inputs are whole cents and
\* within one cent of the rounded parts otherwise
C21_Totals ==
    (calc # NoCalc /\ calc.out # NoCalc)
    => LET out == calc.out
           sum == out.itemsPrice + out.shippingPrice + out.taxPrice
                  - out.discount
       IN  /\ out.discount <= out.itemsPrice
           /\ out.discount <= toFixed2(calc.input.couponDiscount, Cent,
                                       calc.input.tieUp)
           /\ out.totalPrice >= 0
           /\ out.totalPrice - sum \in {0 - Cent, 0, Cent}
           /\ (/\ calc.input.couponDiscount % Cent = 0
               /\ \A i \in 1 .. Len(calc.input.items) :
                     calc.input.items[i].price % Cent = 0)
              => out.totalPrice = sum
           /\ out.shippingPrice >= 0 /\ out.taxPrice >= 0

\* C21 as stated: the returned total is the returned items + shipping + tax
\* - discount, whatever the inputs
C21_TotalIsSumOfParts ==
    (calc # NoCalc /\ calc.out # NoCalc)
    => calc.out.totalPrice = calc.out.itemsPrice + calc.out.shippingPrice
                             + calc.out.taxPrice - calc.out.discount

\* a domestic order over the free-shipping threshold with a coupon worth
\* more than the items: the discount is clamped and the total is the tax
C21_Witness ==
    /\ calc # NoCalc /\ calc.out # NoCalc
    /\ calc.input.couponDiscount > calc.out.itemsPrice
    /\ calc.out.discount = calc.out.itemsPrice
    /\ calc.out.isFreeShipping
    /\ calc.out.taxPrice > 0
    /\ calc.out.totalPrice = calc.out.taxPrice

\* C23: a request that answered 201 has reduced the stock of each product by
\* exactly the quantity it ordered (none for a product it did not order) and
\* has persisted one order, which is pending, unpaid, its payment pending
C23_SuccessfulOrder ==
    \A r \in {1, 2} :
        (req[r].pc = "done" /\ req[r].status = 201) =>
            /\ r \in DOMAIN orders
            /\ {o \in DOMAIN orders : orders[o].db = r} = {r}
            /\ orders[r].items = normalizeOrderItems(isoInput.raw)
            /\ \A p \in Products :
                  products[r][p].countInStock
                      = initStock[p] - QtyOf(orders[r].items, p)
            /\ orders[r].status = "pending"
            /\ orders[r].payStatus = "pending"
            /\ ~orders[r].isPaid

\* both paths have persisted an order of p1 alone and p2 kept its stock
C23_Witness ==
    /\ \A r \in {1, 2} : req[r].pc = "done" /\ req[r].status = 201
    /\ QtyOf(orders[1].items, "p1") > 0 /\ QtyOf(orders[1].items, "p2") = 0
    /\ initStock["p2"] > 0
    /\ \A r \in {1, 2} :
          /\ products[r]["p1"].countInStock < initStock["p1"]
          /\ products[r]["p2"].countInStock = initStock["p2"]

\* C24: a handler that loads an order already settled for its event goes on
\* to the stamp without a save, and its delivery, when no store operation
\* fails, is answered 200 and stamped processed with no error recorded; no
\* handler saves an order that it loaded settled
C24_LateEventsNoOp ==
    [][\A d \in Deliveries :
        LET ev == payload[del[d].event]
            o == TargetOf(ev)
            Settled(doc) ==
                \/ ev.type = SucceededT
                      /\ (\/ doc.isPaid
                          \/ doc.status \in {"cancelled", "refunded"})
                \/ ev.type = FailedT
                      /\ (doc.isPaid \/ doc.status = "refunded")
        IN  /\ (del[d].pc = "handler" /\ del'[d] # del[d] /\ faults' = faults
                  /\ o # NoOrder /\ Settled(orders[o]))
               => /\ del'[d].pc = "stamp"
                  /\ del'[d].handlerDone /\ ~del'[d].wrote
                  /\ orders' = orders
            /\ (del[d].pc = "stamp" /\ del'[d] # del[d] /\ faults' = faults
                  /\ ~del[d].wrote)
               => /\ del'[d].resp = 200 /\ del'[d].stamped
                  /\ ledger'[del[d].event].processedAt
                  /\ ledger'[del[d].event].lastError
                        => ledger[del[d].event].lastError
                  /\ orders' = orders
            /\ (del[d].pc = "save" /\ del'[d] # del[d])
               => ~Settled(del[d].read)
      ]_vars

\* a payment-failed event for a paid order and a payment-succeeded event for
\* a cancelled one have been stamped and the order is as it was
C24_Witness ==
    \E d \in Deliveries :
        /\ del[d].pc = "done" /\ del[d].stamped /\ ~del[d].wrote
        /\ del[d].handlerDone
        /\ \/ payload[del[d].event].type = FailedT /\ orders[1] = PaidOrder
           \/ payload[del[d].event].type = SucceededT
                 /\ orders[1] = CancelledOrder
        /\ payload[del[d].event].orderId = 1

\* C25: a charge.refunded event is applied to the order whose intentId is the
\* event's: the handler of an order not yet refunded saves it, and after the
\* save the order is refunded, its payment refunded, unpaid, and carries the
\* refunded amount; for an order already refunded, or when no order has the
\* intent id, the handler saves nothing
C25_RefundApplied ==
    [][\A d \in Deliveries :
        LET ev == payload[del[d].event]
            o == TargetOf(ev)
        IN  ev.type = RefundedT =>
            /\ (del[d].pc = "handler" /\ del'[d] # del[d] /\ faults' = faults)
               => /\ orders' = orders
                  /\ IF o # NoOrder /\ orders[o].status # "refunded"
                           /\ orders[o].payStatus # "refunded"
                     THEN /\ del'[d].pc = "save" /\ del'[d].target = o
                          /\ orders[o].intentId = ev.intent
                     ELSE del'[d].pc = "stamp"
            /\ (del[d].pc = "save" /\ del'[d] # del[d] /\ faults' = faults)
               => LET after == orders'[del[d].target]
                  IN  /\ after.status = "refunded"
                      /\ after.payStatus = "refunded"
                      /\ ~after.isPaid
                      /\ after.refundAmount = ev.amount
      ]_vars

\* C26: the ledger holds one record per event id, a record is created with
\* attempts = 1, and the attempts of an event are the number of deliveries of
\* it whose upsert succeeded; an event none of whose upserts succeeded has no
\* record. A delivery's upsert has succeeded when it was verified and was not
\* answered 500 before any handler ran
C26_AttemptsCountUpserts ==
    [][/\ DOMAIN ledger' \subseteq EventIds
       /\ \A e \in EventIds :
            LET Upserted(dl) ==
                    /\ dl.pc # "idle"
                    /\ ~(dl.pc = "done" /\ dl.resp = 400)
                    /\ ~(dl.pc = "done" /\ dl.resp = 500 /\ ~dl.ranHandler)
                n == Cardinality({d \in Deliveries :
                        del'[d].event = e /\ Upserted(del'[d])})
            IN  /\ (e \in DOMAIN ledger') <=> n > 0
                /\ e \in DOMAIN ledger' => ledger'[e].attempts = n
                /\ (e \notin DOMAIN ledger /\ e \in DOMAIN ledger')
                      => ledger'[e].attempts = 1
      ]_vars

\* two deliveries of one event have both upserted before either was handled
C26_Witness ==
    /\ "evt_1" \in DOMAIN ledger /\ ledger["evt_1"].attempts = 2
    /\ \A d \in {1, 2} : del[d].event = "evt_1" /\ del[d].pc = "handler"

\* C27: an order is isPaid exactly when its payment status is paid
C27_PaidIffPaymentPaid ==
    \A o \in DOMAIN orders :
        orders[o].isPaid <=> orders[o].payStatus = "paid"

C22_ReuseRevokesFamily ==
    [][/\ \A r \in (1 .. MaxRefreshes) :
            /\ (rf[r].pc = "idle" /\ rf'[r] # rf[r] /\ rf'[r].jti # 0
                  /\ tokens[rf'[r].jti].revoked)
               => (rf'[r].pc = "reuse" /\ tokens' = tokens)
            /\ (rf[r].pc = "reuse" /\ rf'[r] # rf[r])
               => /\ rf'[r].pc = "done" /\ rf'[r].resp = 401
                  /\ rf'[r].issued = 0
                  /\ \A j \in DOMAIN tokens' :
                        tokens'[j].familyId = rf[r].read.familyId
                            => tokens'[j].revoked
                  /\ \A q \in (1 .. MaxRefreshes) :
                        (rf[q].resp = 200 /\ rf[q].jti = rf[r].jti)
                            => tokens'[rf[q].issued].revoked
            /\ (rf'[r] # rf[r] /\ rf'[r].resp = 200) => ~rf[r].read.revoked
       /\ \A j \in DOMAIN tokens : tokens[j].revoked => tokens'[j].revoked
      ]_vars

\* the token of a login was rotated, the old token was presented again and
\* refused, and then the token the rotation had issued was refused as well
C22_Witness ==
    \E a, b, c \in (1 .. MaxRefreshes) :
        /\ rf[a].pc = "done" /\ rf[a].jti = 1 /\ rf[a].resp = 200
        /\ rf[b].pc = "done" /\ rf[b].jti = 1 /\ rf[b].resp = 401
        /\ rf[a].issued \in DOMAIN tokens
        /\ tokens[1].reason = "rotated"
        /\ tokens[rf[a].issued].reason = "reuse_detected"
        /\ rf[c].pc = "done" /\ rf[c].jti = rf[a].issued /\ rf[c].resp = 401
        /\ \A j \in DOMAIN tokens : tokens[j].familyId = 1 => tokens[j].revoked

\* C29: a refresh-token family never holds two tokens that are not revoked
C29_OneLiveTokenPerFamily ==
    \A i, j \in DOMAIN tokens :
        (i # j /\ tokens[i].familyId = tokens[j].familyId)
            => (tokens[i].revoked \/ tokens[j].revoked)

\* C30: five failed attempts in a row lock the account (the fifth sets
\* lockUntil in the future), and a login that arrives while the account is
\* locked is answered 423 and issues no token
C30_Lockout ==
    [][/\ acct'.streak >= MAX_LOGIN_ATTEMPTS => isLocked(acct', now')
       /\ \A l \in (1 .. MaxLogins) :
            (lg[l].pc = "idle" /\ lg'[l] # lg[l] /\ isLocked(acct, now))
                => (lg'[l].pc = "done" /\ lg'[l].resp = 423
                    /\ tokens' = tokens)
      ]_vars

====
